---------------------------- MODULE Spec2Model ----------------------------
(***************************************************************************)
(* Authentication and credential-lifecycle core of FinLogisticsAPP:        *)
(* registration, login, email verification and the per-request             *)
(* authentication gate (src/main.py, src/auth.py, src/models.py,           *)
(* src/email_utils.py).                                                    *)
(*                                                                         *)
(* Time is counted in whole clock units; the token lifetimes keep the      *)
(* numbers of src/auth.py (minutes).  The users table is a sequence of     *)
(* rows, a row's id being its index.                                       *)
(***************************************************************************)
EXTENDS Integers, Sequences, FiniteSets, TLC

\* ------------------------------------------------------------------ bounds
\* the clock stops advancing at MaxTime
MaxTime == 61
\* at most MaxTokens distinct tokens are held by clients at a time
MaxTokens == 2
\* at most MaxResets password-reset emails are requested
MaxResets == 1

\* ------------------------------------------------------- program constants
ACCESS_TOKEN_EXPIRE_MINUTES == 60
EMAIL_TOKEN_EXPIRE_MINUTES == 30
PASSWORD_RESET_EXPIRE_MINUTES == 30
SECRET_KEY == "replace-with-a-long-random-secret-string"

\* ------------------------------------------------------------ input domains
\* "a@x.com" is both a possible username and a possible email
Usernames == {"alice", "a@x.com"}
Emails == {"a@x.com", "b@y.com"}
Passwords == {"pw1", "pw2"}
\* concurrent /register requests
Requests == {"r1", "r2"}
\* the salts pwd_context.hash may draw
Salts == {"s1"}
\* a signing key the server does not use
AttackerKey == "attacker-key"

NoUser == 0
NoType == "absent"
NoToken == [sub |-> "", type |-> NoType, exp |-> 0, sig |-> <<>>]
NoArg == <<>>

VARIABLES
  users,    \* the users table: a sequence of rows
  now,      \* datetime.utcnow()
  tokens,   \* the tokens issued so far and still held by clients
  outbox,   \* the calls made to the email collaborator, in order
  reg,      \* the /register requests in flight: request -> progress
  last      \* the last step taken and its response

vars == <<users, now, tokens, outbox, reg, last>>

\* ----------------------------------------------------------- CredentialStore
\* pwd_context.hash: a salted one-way hash; the salt is embedded in the output
get_password_hash(password, salt) == <<"pbkdf2_sha256", salt, password>>

\* pwd_context.verify: re-hash the plaintext under the embedded salt and compare
verify_password(plain_password, hashed_password) ==
  hashed_password = get_password_hash(plain_password, hashed_password[2])

\* a stored value that is no pbkdf2_sha256 hash: the column takes any string
MalformedHash == <<"corrupt", "", "">>

\* pwd_context.verify raises (UnknownHashError, a ValueError) instead of
\* returning when the stored value cannot be identified as a hash of the
\* context's scheme
UnknownHash(hashed_password) == hashed_password[1] # "pbkdf2_sha256"

\* ------------------------------------------------------------- UserDirectory
UserIds == 1..Len(users)

Min(S) == CHOOSE x \in S : \A y \in S : x <= y

\* db.query(User).filter(User.username == username).first()
get_user_by_username(username) ==
  LET hits == {i \in UserIds : users[i].username = username}
  IN  IF hits = {} THEN NoUser ELSE Min(hits)

\* db.query(User).filter(User.email == email).first()
get_user_by_email(email) ==
  LET hits == {i \in UserIds : users[i].email = email}
  IN  IF hits = {} THEN NoUser ELSE Min(hits)

\* authenticate_user trying the email match when the password does not fit
\* the username match
authenticate_user_fallback(username, password) ==
  LET byName == get_user_by_username(username)
      byEmail == get_user_by_email(username)
  IN  IF byName # NoUser /\ verify_password(password, users[byName].hashed_password)
        THEN byName
      ELSE IF byEmail # NoUser /\ verify_password(password, users[byEmail].hashed_password)
        THEN byEmail
      ELSE NoUser

\* resolve the identifier as a username, then as an email; check the password
authenticate_user(username, password) ==
  LET byName == get_user_by_username(username)
      user == IF byName = NoUser THEN get_user_by_email(username) ELSE byName
  IN  IF user = NoUser THEN NoUser
      ELSE IF ~verify_password(password, users[user].hashed_password) THEN NoUser
      ELSE user

\* ---------------------------------------------------------------- TokenCodec
\* HS256 over the claims under a key
HS256(key, sub, type, exp) == <<key, sub, type, exp>>

\* jwt.encode(to_encode, SECRET_KEY, algorithm=ALGORITHM)
jwt_encode(sub, type, exp) ==
  [sub |-> sub, type |-> type, exp |-> exp, sig |-> HS256(SECRET_KEY, sub, type, exp)]

\* a signature check that looks at the key and not at the claims signed
SignatureValid_key_only(token) ==
  Len(token.sig) = 4 /\ token.sig[1] = SECRET_KEY

\* the signature check of jwt.decode
SignatureValid(token) ==
  token.sig = HS256(SECRET_KEY, token.sub, token.type, token.exp)

\* the expiry check of jwt.decode, called without leeway: python-jose's
\* _validate_exp raises ExpiredSignatureError when exp < now, so a token is
\* refused only once its exp lies before the current clock reading
Expired(token) == token.exp < now

\* jwt.decode(token, SECRET_KEY, algorithms=[ALGORITHM]) does not raise JWTError
jwt_decode_ok(token) == SignatureValid(token) /\ ~Expired(token)

\* create_access_token falling back on its default of 15 minutes
create_access_token_default(username, expires_delta) ==
  jwt_encode(username, NoType, now + 15)

\* create_access_token(data={"sub": username}, expires_delta): no "type" claim
create_access_token(username, expires_delta) ==
  jwt_encode(username, NoType, now + expires_delta)

create_email_verification_token(email) ==
  jwt_encode(email, "verify_email", now + EMAIL_TOKEN_EXPIRE_MINUTES)

\* create_password_reset_token stamping the kind of the verification token
create_password_reset_token_verify_kind(email) ==
  jwt_encode(email, "verify_email", now + PASSWORD_RESET_EXPIRE_MINUTES)

create_password_reset_token(email) ==
  jwt_encode(email, "reset_password", now + PASSWORD_RESET_EXPIRE_MINUTES)

\* the subject, or "" for None
decode_email_verification_token(token) ==
  IF ~jwt_decode_ok(token) THEN ""
  ELSE IF token.type # "verify_email" THEN ""
  ELSE token.sub

decode_password_reset_token(token) ==
  IF ~jwt_decode_ok(token) THEN ""
  ELSE IF token.type # "reset_password" THEN ""
  ELSE token.sub

\* ------------------------------------------------------------------- state
Idle == [pc |-> "idle", username |-> "", email |-> "", password |-> ""]

\* a request (op, arg, the token it carried, was answered with or mailed) and
\* its response (res, the user it concerned); mail is how the request's call to
\* the email collaborator ended, "none" when it made none
Response(op, arg, res, uid, tok) ==
  [op |-> op, arg |-> arg, res |-> res, uid |-> uid, tok |-> tok, mail |-> "none"]

Mailed(response, outcome) == [response EXCEPT !.mail = outcome]

Init ==
  /\ users = <<>>
  /\ now = 0
  /\ tokens = {}
  /\ outbox = <<>>
  /\ reg = [r \in Requests |-> Idle]
  /\ last = Response("none", NoArg, "none", NoUser, NoToken)

\* a client keeps a token it was handed, while it can hold one more
CanHold(token) == token \in tokens \/ Cardinality(tokens) < MaxTokens

\* the tokens clients hold after being handed one more
Keep(token) == IF CanHold(token) THEN tokens \cup {token} ELSE tokens

\* tokens signed by somebody who does not know SECRET_KEY
ForgedTokens ==
  {[sub |-> "alice", type |-> NoType, exp |-> MaxTime + 1,
    sig |-> HS256(AttackerKey, "alice", NoType, MaxTime + 1)],
   [sub |-> "a@x.com", type |-> "verify_email", exp |-> MaxTime + 1,
    sig |-> HS256(AttackerKey, "a@x.com", "verify_email", MaxTime + 1)]}

\* what a client can put in a request: a token it holds, a forged one, or none
Presentable == tokens \cup ForgedTokens \cup {NoToken}

\* a bearer string that is not a JWT: jwt.decode raises JWTError
MalformedToken ==
  [sub |-> "alice", type |-> NoType, exp |-> MaxTime + 1, sig |-> <<"not a jwt">>]

\* ------------------------------------------------------------ POST /register
\* the users table with a unique index on username alone
UniqueViolation_username_only(username, email) ==
  \E i \in UserIds : users[i].username = username

\* the unique indexes of the users table (username, email) refuse the row
UniqueViolation(username, email) ==
  \/ \E i \in UserIds : users[i].username = username
  \/ \E i \in UserIds : users[i].email = email

\* the row register_user adds
NewUser(username, email, password, salt) ==
  [username |-> username, email |-> email,
   hashed_password |-> get_password_hash(password, salt),
   is_active |-> TRUE, is_verified |-> FALSE]

\* send_verification_email: logs the link when Mailjet is not configured,
\* otherwise calls Mailjet and swallows any exception
DispatchOutcomes == {"sent", "error", "unconfigured"}

\* one call of send_verification_email
send_verification_email(to_email) == [to |-> to_email, template |-> "verify"]

\* the token reaches a client unless the call to Mailjet raised
Delivered(outcome, token) == IF outcome = "error" THEN tokens ELSE Keep(token)

\* the duplicate checks with the email check left out
DuplicateCheck_username_only(username, email) ==
  IF get_user_by_username(username) # NoUser THEN "400 Username already registered"
  ELSE ""

\* the duplicate checks of register_user: the 400 detail, or "" when both pass
DuplicateCheck(username, email) ==
  IF get_user_by_username(username) # NoUser THEN "400 Username already registered"
  ELSE IF get_user_by_email(email) # NoUser THEN "400 Email already registered"
  ELSE ""

\* register_user letting a failed dispatch fail the request and undo the insert
register_user_rollback(username, email, password) ==
  /\ IF DuplicateCheck(username, email) # ""
       THEN /\ last' = Response("register", <<username, email>>,
                                DuplicateCheck(username, email), NoUser, NoToken)
            /\ UNCHANGED <<users, tokens, outbox>>
     ELSE \E salt \in Salts, outcome \in DispatchOutcomes :
          LET token == create_email_verification_token(email)
          IN  /\ users' = IF outcome = "error" THEN users
                          ELSE Append(users, NewUser(username, email, password, salt))
              /\ outbox' = Append(outbox, send_verification_email(email))
              /\ tokens' = Delivered(outcome, token)
              /\ last' = Mailed(Response("register", <<username, email>>,
                                         IF outcome = "error" THEN "500" ELSE "200",
                                         IF outcome = "error" THEN NoUser ELSE Len(users) + 1,
                                         token), outcome)
  /\ UNCHANGED <<now, reg>>

\* the whole handler, run without interference from another request
register_user(username, email, password) ==
  /\ IF DuplicateCheck(username, email) # ""
       THEN /\ last' = Response("register", <<username, email>>,
                                DuplicateCheck(username, email), NoUser, NoToken)
            /\ UNCHANGED <<users, tokens, outbox>>
     ELSE IF UniqueViolation(username, email)
       THEN /\ last' = Response("register", <<username, email>>,
                                "500 IntegrityError", NoUser, NoToken)
            /\ UNCHANGED <<users, tokens, outbox>>
     ELSE \E salt \in Salts, outcome \in DispatchOutcomes :
          LET token == create_email_verification_token(email)
          IN  /\ users' = Append(users, NewUser(username, email, password, salt))
              /\ outbox' = Append(outbox, send_verification_email(email))
              /\ tokens' = Delivered(outcome, token)
              /\ last' = Mailed(Response("register", <<username, email>>, "200",
                                         Len(users) + 1, token), outcome)
  /\ UNCHANGED <<now, reg>>

\* the handler step by step, for requests served concurrently.
\* first duplicate check: get_user_by_username
RegisterCheckUsername(r, username, email, password) ==
  /\ reg[r].pc = "idle"
  /\ IF get_user_by_username(username) # NoUser
       THEN /\ reg' = reg
            /\ last' = Response("register", <<username, email>>,
                                "400 Username already registered", NoUser, NoToken)
       ELSE /\ reg' = [reg EXCEPT ![r] = [pc |-> "username_ok", username |-> username,
                                          email |-> email, password |-> password]]
            /\ last' = Response("register", <<username, email>>, "running", NoUser, NoToken)
  /\ UNCHANGED <<users, now, tokens, outbox>>

\* second duplicate check: get_user_by_email
RegisterCheckEmail(r) ==
  /\ reg[r].pc = "username_ok"
  /\ IF get_user_by_email(reg[r].email) # NoUser
       THEN /\ last' = Response("register", <<reg[r].username, reg[r].email>>,
                                "400 Email already registered", NoUser, NoToken)
            /\ reg' = [reg EXCEPT ![r] = Idle]
       ELSE /\ reg' = [reg EXCEPT ![r].pc = "email_ok"]
            /\ last' = Response("register", <<reg[r].username, reg[r].email>>,
                                "running", NoUser, NoToken)
  /\ UNCHANGED <<users, now, tokens, outbox>>

\* hash the password, db.add(user), db.commit(): the commit raises IntegrityError
\* when a unique index refuses the row, and the request ends without a row
RegisterCommit(r) ==
  /\ reg[r].pc = "email_ok"
  /\ IF UniqueViolation(reg[r].username, reg[r].email)
       THEN /\ last' = Response("register", <<reg[r].username, reg[r].email>>,
                                "500 IntegrityError", NoUser, NoToken)
            /\ reg' = [reg EXCEPT ![r] = Idle]
            /\ users' = users
       ELSE \E salt \in Salts :
            /\ users' = Append(users,
                 NewUser(reg[r].username, reg[r].email, reg[r].password, salt))
            /\ reg' = [reg EXCEPT ![r].pc = "committed"]
            /\ last' = Response("register", <<reg[r].username, reg[r].email>>,
                                "running", Len(users) + 1, NoToken)
  /\ UNCHANGED <<now, tokens, outbox>>

\* create the verification token, call the email collaborator, return the user
RegisterSend(r) ==
  /\ reg[r].pc = "committed"
  /\ LET uid == get_user_by_username(reg[r].username)
         token == create_email_verification_token(users[uid].email)
     IN  \E outcome \in DispatchOutcomes :
         /\ outbox' = Append(outbox, send_verification_email(users[uid].email))
         /\ tokens' = Delivered(outcome, token)
         /\ last' = Mailed(Response("register", <<reg[r].username, reg[r].email>>,
                                    "200", uid, token), outcome)
  /\ reg' = [reg EXCEPT ![r] = Idle]
  /\ UNCHANGED <<users, now>>

\* RegisterSend in two steps, for the order of the dispatch and the response.
\* send_verification_email is entered: without a Mailjet client it prints the
\* link and returns at once, with one it calls mj_client.send.create and the
\* handler waits in that call
RegisterCall(r) ==
  /\ reg[r].pc = "committed"
  /\ LET uid == get_user_by_username(reg[r].username)
         token == create_email_verification_token(users[uid].email)
     IN  /\ outbox' = Append(outbox, send_verification_email(users[uid].email))
         /\ \/ /\ tokens' = Delivered("unconfigured", token)
               /\ reg' = [reg EXCEPT ![r] = Idle]
               /\ last' = Mailed(Response("register", <<reg[r].username, reg[r].email>>,
                                          "200", uid, token), "unconfigured")
            \/ /\ tokens' = tokens
               /\ reg' = [reg EXCEPT ![r].pc = "sending"]
               /\ last' = Response("register", <<reg[r].username, reg[r].email>>,
                                   "running", uid, NoToken)
  /\ UNCHANGED <<users, now>>

\* the call to Mailjet returns or raises, and only then does the handler
\* reach "return user"; the clock stands still in this specification, so the
\* token is the one made when the call began
RegisterReturn(r) ==
  /\ reg[r].pc = "sending"
  /\ LET uid == get_user_by_username(reg[r].username)
         token == create_email_verification_token(users[uid].email)
     IN  \E outcome \in {"sent", "error"} :
         /\ tokens' = Delivered(outcome, token)
         /\ last' = Mailed(Response("register", <<reg[r].username, reg[r].email>>,
                                    "200", uid, token), outcome)
  /\ reg' = [reg EXCEPT ![r] = Idle]
  /\ UNCHANGED <<users, now, outbox>>

\* --------------------------------------------------------------- POST /token
\* login_response with the is_verified check left out
login_response_unverified_ok(identifier, password) ==
  LET user == authenticate_user(identifier, password)
  IN  IF user = NoUser
        THEN Response("login", <<identifier, password>>, "401", NoUser, NoToken)
      ELSE Response("login", <<identifier, password>>, "200", user,
                    create_access_token(users[user].username, ACCESS_TOKEN_EXPIRE_MINUTES))

\* login_response with the token bound to the identifier typed in
login_response_sub_identifier(identifier, password) ==
  LET user == authenticate_user(identifier, password)
  IN  IF user = NoUser
        THEN Response("login", <<identifier, password>>, "401", NoUser, NoToken)
      ELSE IF ~users[user].is_verified
        THEN Response("login", <<identifier, password>>, "403", user, NoToken)
      ELSE Response("login", <<identifier, password>>, "200", user,
                    create_access_token(identifier, ACCESS_TOKEN_EXPIRE_MINUTES))

\* login_response looking at is_verified before the password
login_response_verified_first(identifier, password) ==
  LET byName == get_user_by_username(identifier)
      user == IF byName = NoUser THEN get_user_by_email(identifier) ELSE byName
  IN  IF user = NoUser
        THEN Response("login", <<identifier, password>>, "401", NoUser, NoToken)
      ELSE IF ~users[user].is_verified
        THEN Response("login", <<identifier, password>>, "403", user, NoToken)
      ELSE IF ~verify_password(password, users[user].hashed_password)
        THEN Response("login", <<identifier, password>>, "401", NoUser, NoToken)
      ELSE Response("login", <<identifier, password>>, "200", user,
                    create_access_token(users[user].username, ACCESS_TOKEN_EXPIRE_MINUTES))

\* login_response refusing a deactivated user
login_response_active_only(identifier, password) ==
  LET user == authenticate_user(identifier, password)
  IN  IF user = NoUser
        THEN Response("login", <<identifier, password>>, "401", NoUser, NoToken)
      ELSE IF ~users[user].is_active
        THEN Response("login", <<identifier, password>>, "400 Inactive user", user, NoToken)
      ELSE IF ~users[user].is_verified
        THEN Response("login", <<identifier, password>>, "403", user, NoToken)
      ELSE Response("login", <<identifier, password>>, "200", user,
                    create_access_token(users[user].username, ACCESS_TOKEN_EXPIRE_MINUTES))

\* the user authenticate_user hands to verify_password
Resolved(identifier) ==
  IF get_user_by_username(identifier) # NoUser THEN get_user_by_username(identifier)
  ELSE get_user_by_email(identifier)

\* the response of login_for_access_token; an exception of verify_password
\* is caught neither by authenticate_user nor by the handler and ends as 500
login_response(identifier, password) ==
  LET user == authenticate_user(identifier, password)
  IN  IF /\ Resolved(identifier) # NoUser
         /\ UnknownHash(users[Resolved(identifier)].hashed_password)
        THEN Response("login", <<identifier, password>>, "500 UnknownHashError",
                      NoUser, NoToken)
      ELSE IF user = NoUser
        THEN Response("login", <<identifier, password>>, "401", NoUser, NoToken)
      ELSE IF ~users[user].is_verified
        THEN Response("login", <<identifier, password>>, "403", user, NoToken)
      ELSE Response("login", <<identifier, password>>, "200", user,
                    create_access_token(users[user].username, ACCESS_TOKEN_EXPIRE_MINUTES))

\* login_for_access_token switching the account back on at a successful login
login_for_access_token_activating(identifier, password) ==
  /\ last' = login_response(identifier, password)
  /\ tokens' = IF last'.res = "200" THEN Keep(last'.tok) ELSE tokens
  /\ users' = IF last'.res = "200"
                THEN [users EXCEPT ![last'.uid].is_active = TRUE]
                ELSE users
  /\ UNCHANGED <<now, outbox, reg>>

login_for_access_token(identifier, password) ==
  /\ last' = login_response(identifier, password)
  /\ tokens' = IF last'.res = "200" THEN Keep(last'.tok) ELSE tokens
  /\ UNCHANGED <<users, now, outbox, reg>>

\* ---------------------------------------------------------- GET /verify-email
\* verify_email_response refusing a user who is verified already
verify_email_response_once(token) ==
  LET email == decode_email_verification_token(token)
      user == get_user_by_email(email)
  IN  IF email = "" THEN Response("verify_email", NoArg, "400", NoUser, token)
      ELSE IF user = NoUser THEN Response("verify_email", NoArg, "404", NoUser, token)
      ELSE IF users[user].is_verified
        THEN Response("verify_email", NoArg, "400", user, token)
      ELSE Response("verify_email", NoArg, "200 verified", user, token)

\* the response of verify_email
verify_email_response(token) ==
  LET email == decode_email_verification_token(token)
      user == get_user_by_email(email)
  IN  IF email = "" THEN Response("verify_email", NoArg, "400", NoUser, token)
      ELSE IF user = NoUser THEN Response("verify_email", NoArg, "404", NoUser, token)
      ELSE IF users[user].is_verified
        THEN Response("verify_email", NoArg, "200 already verified", user, token)
      ELSE Response("verify_email", NoArg, "200 verified", user, token)

\* user.is_verified = True; db.commit() on the one path that writes
verify_email(token) ==
  /\ last' = verify_email_response(token)
  /\ users' = IF last'.res = "200 verified"
                THEN [users EXCEPT ![last'.uid].is_verified = TRUE]
                ELSE users
  /\ UNCHANGED <<now, tokens, outbox, reg>>

\* ------------------------------------------------------------ password reset
\* send_password_reset_email: calls Mailjet and swallows any exception, the
\* one an unconfigured client raises included
ResetDispatchOutcomes == {"sent", "error"}

\* one call of send_password_reset_email
send_password_reset_email(to_email) == [to |-> to_email, template |-> "reset"]

\* the reset emails requested so far
ResetsSent == Len(SelectSeq(outbox, LAMBDA m : m.template = "reset"))

\* requestPasswordReset: success whether or not the email is registered; a
\* reset token is issued and mailed only when it is
request_password_reset(email) ==
  /\ ResetsSent < MaxResets
  /\ IF get_user_by_email(email) = NoUser
       THEN /\ last' = Response("request_reset", <<email>>, "ok", NoUser, NoToken)
            /\ UNCHANGED <<tokens, outbox>>
       ELSE \E outcome \in ResetDispatchOutcomes :
            LET token == create_password_reset_token(email)
            IN  /\ outbox' = Append(outbox, send_password_reset_email(email))
                /\ tokens' = Delivered(outcome, token)
                /\ last' = Mailed(Response("request_reset", <<email>>, "ok",
                                           get_user_by_email(email), token), outcome)
  /\ UNCHANGED <<users, now, reg>>

\* the response of confirmPasswordReset
confirm_password_reset_response(token, new_password) ==
  LET email == decode_password_reset_token(token)
      user == get_user_by_email(email)
  IN  IF email = "" THEN Response("confirm_reset", <<new_password>>, "InvalidOrExpiredToken", NoUser, token)
      ELSE IF user = NoUser
        THEN Response("confirm_reset", <<new_password>>, "UserNotFound", NoUser, token)
      ELSE Response("confirm_reset", <<new_password>>, "ok", user, token)

\* confirmPasswordReset: a valid reset token overwrites the credential hash
confirm_password_reset(token, new_password) ==
  /\ last' = confirm_password_reset_response(token, new_password)
  /\ IF last'.res = "ok"
       THEN \E salt \in Salts :
              users' = [users EXCEPT ![last'.uid].hashed_password =
                                       get_password_hash(new_password, salt)]
       ELSE users' = users
  /\ UNCHANGED <<now, tokens, outbox, reg>>

\* ------------------------------------------------------- RequestAuthenticator
\* get_current_user looking the subject up as an email
get_current_user_by_email(token) ==
  IF ~jwt_decode_ok(token) THEN NoUser
  ELSE IF token.sub = "" THEN NoUser
  ELSE get_user_by_email(token.sub)

\* get_current_user: the user the bearer token names, or NoUser for the 401
get_current_user(token) ==
  IF ~jwt_decode_ok(token) THEN NoUser
  ELSE IF token.sub = "" THEN NoUser
  ELSE get_user_by_username(token.sub)

\* get_current_active_user with the is_active check left out
get_current_active_user_inactive_ok(token) ==
  LET current_user == get_current_user(token)
  IN  IF current_user = NoUser THEN Response("authenticate", NoArg, "401", NoUser, token)
      ELSE IF ~users[current_user].is_verified
        THEN Response("authenticate", NoArg, "403", current_user, token)
      ELSE Response("authenticate", NoArg, "principal", current_user, token)

\* get_current_active_user looking at is_verified before is_active
get_current_active_user_verified_first(token) ==
  LET current_user == get_current_user(token)
  IN  IF current_user = NoUser THEN Response("authenticate", NoArg, "401", NoUser, token)
      ELSE IF ~users[current_user].is_verified
        THEN Response("authenticate", NoArg, "403", current_user, token)
      ELSE IF ~users[current_user].is_active
        THEN Response("authenticate", NoArg, "400 Inactive user", current_user, token)
      ELSE Response("authenticate", NoArg, "principal", current_user, token)

\* get_current_active_user over get_current_user: the response of the gate
get_current_active_user(token) ==
  LET current_user == get_current_user(token)
  IN  IF current_user = NoUser THEN Response("authenticate", NoArg, "401", NoUser, token)
      ELSE IF ~users[current_user].is_active
        THEN Response("authenticate", NoArg, "400 Inactive user", current_user, token)
      ELSE IF ~users[current_user].is_verified
        THEN Response("authenticate", NoArg, "403", current_user, token)
      ELSE Response("authenticate", NoArg, "principal", current_user, token)

\* a request to a protected route carrying the token
Authenticate(token) ==
  /\ last' = get_current_active_user(token)
  /\ UNCHANGED <<users, now, tokens, outbox, reg>>

\* ---------------------------------------------------------------- environment
\* the stored hash of a user is damaged or overwritten outside the routes
CorruptHash(uid) ==
  /\ users[uid].hashed_password # MalformedHash
  /\ users' = [users EXCEPT ![uid].hashed_password = MalformedHash]
  /\ last' = Response("corrupt", NoArg, "done", uid, NoToken)
  /\ UNCHANGED <<now, tokens, outbox, reg>>

\* is_active is set by an administrator, outside the routes
SetActive(uid, active) ==
  /\ users[uid].is_active # active
  /\ users' = [users EXCEPT ![uid].is_active = active]
  /\ last' = Response("admin", NoArg, "done", uid, NoToken)
  /\ UNCHANGED <<now, tokens, outbox, reg>>

\* the instants at which some held token's acceptance can change
Deadlines == UNION {{t.exp, t.exp + 1} : t \in tokens}

\* the clock advances to the next instant of interest
Tick(t) ==
  /\ t > now
  /\ t <= MaxTime
  /\ now' = t
  /\ last' = Response("tick", NoArg, "done", NoUser, NoToken)
  /\ UNCHANGED <<users, tokens, outbox, reg>>

\* requests served one at a time
Next ==
  \/ \E u \in Usernames, e \in Emails, p \in Passwords : register_user(u, e, p)
  \/ \E id \in Usernames \cup Emails, p \in Passwords : login_for_access_token(id, p)
  \/ \E t \in Presentable : verify_email(t)
  \/ \E t \in Presentable : Authenticate(t)
  \/ \E uid \in UserIds, b \in BOOLEAN : SetActive(uid, b)
  \/ \E t \in Deadlines : Tick(t)

Spec == Init /\ [][Next]_vars

\* a client throws away the verification token it has used
Forget(token) ==
  /\ token.type = "verify_email"
  /\ get_user_by_email(token.sub) # NoUser
  /\ users[get_user_by_email(token.sub)].is_verified
  /\ tokens' = tokens \ {token}
  /\ last' = Response("forget", NoArg, "done", NoUser, NoToken)
  /\ UNCHANGED <<users, now, outbox, reg>>

\* the instants at which a held reset token's acceptance can change
ResetDeadlines ==
  UNION {{t.exp, t.exp + 1} : t \in {x \in tokens : x.type = "reset_password"}}

\* the routes of src/main.py together with the password-reset operations
NextReset ==
  \/ \E u \in Usernames, e \in Emails : register_user(u, e, "pw1")
  \/ \E id \in Usernames \cup Emails, p \in Passwords : login_for_access_token(id, p)
  \/ \E t \in tokens : verify_email(t)
  \/ \E t \in tokens : Authenticate(t)
  \/ \E e \in Emails : request_password_reset(e)
  \/ \E t \in tokens, p \in Passwords : confirm_password_reset(t, p)
  \/ \E t \in tokens : Forget(t)
  \/ \E t \in ResetDeadlines : Tick(t)

SpecReset == Init /\ [][NextReset]_vars

\* /register requests served concurrently
NextRace ==
  \/ \E r \in Requests, u \in Usernames, e \in Emails, p \in Passwords :
       RegisterCheckUsername(r, u, e, p)
  \/ \E r \in Requests : RegisterCheckEmail(r)
  \/ \E r \in Requests : RegisterCommit(r)
  \/ \E r \in Requests : RegisterSend(r)
  \/ \E t \in tokens : verify_email(t)

SpecRace == Init /\ [][NextRace]_vars

\* registration, verification and login over a table whose hashes can be damaged
NextCorrupt ==
  \/ \E u \in Usernames, e \in Emails, p \in Passwords : register_user(u, e, p)
  \/ \E id \in Usernames \cup Emails, p \in Passwords : login_for_access_token(id, p)
  \/ \E t \in tokens : verify_email(t)
  \/ \E uid \in UserIds : CorruptHash(uid)

SpecCorrupt == Init /\ [][NextCorrupt]_vars

\* /register requests with the call to the email collaborator as a step of
\* its own
NextDispatch ==
  \/ \E r \in Requests, u \in Usernames, e \in Emails, p \in Passwords :
       RegisterCheckUsername(r, u, e, p)
  \/ \E r \in Requests : RegisterCheckEmail(r)
  \/ \E r \in Requests : RegisterCommit(r)
  \/ \E r \in Requests : RegisterCall(r)
  \/ \E r \in Requests : RegisterReturn(r)
  \/ \E t \in tokens : verify_email(t)

SpecDispatch == Init /\ [][NextDispatch]_vars

\* ============================================================== properties

\* C1: a login request never returns an access token for a user whose
\* is_verified was false when the request was served: a 200 is answered only
\* for a verified user, and a correct password for an unverified user is
\* answered with the 403 "Email not verified", no token being issued.
C1_NoTokenForUnverified ==
  [][last'.op = "login" =>
       LET user == authenticate_user(last'.arg[1], last'.arg[2])
       IN  /\ last'.res = "200" =>
                /\ user # NoUser
                /\ users[user].is_verified
                /\ last'.uid = user
           /\ (user # NoUser /\ ~users[user].is_verified) =>
                /\ last'.res = "403"
                /\ last'.tok = NoToken
                /\ tokens' = tokens]_vars

\* a login with the correct password of an unverified user was refused
C1_Witness ==
  /\ last.op = "login"
  /\ last.res = "403"
  /\ last.uid \in UserIds
  /\ ~users[last.uid].is_verified
  /\ verify_password(last.arg[2], users[last.uid].hashed_password)
  /\ last.tok = NoToken

\* C2: a request whose bearer token decodes and names a user with
\* is_active = false is never answered with the principal, whenever the user
\* was deactivated; a request that was answered with the principal concerned
\* an active user.
C2_InactiveNeverPasses ==
  /\ \A t \in Presentable :
       LET u == get_user_by_username(t.sub)
       IN  (jwt_decode_ok(t) /\ u # NoUser /\ ~users[u].is_active)
             => get_current_active_user(t).res # "principal"
  /\ (last.op = "authenticate" /\ last.res = "principal") => users[last.uid].is_active

\* an access token issued by login was refused because its user is inactive
C2_Witness ==
  /\ last.op = "authenticate"
  /\ last.res = "400 Inactive user"
  /\ last.tok \in tokens
  /\ last.tok.type = NoType
  /\ jwt_decode_ok(last.tok)
  /\ ~users[last.uid].is_active

\* C3: a token is accepted only where its kind is expected: the gate
\* authenticates only access tokens, and /verify-email succeeds only with
\* verify_email tokens.
C3_KindsAreSeparated ==
  /\ (last.op = "authenticate" /\ last.res = "principal")
       => last.tok.type \notin {"verify_email", "reset_password"}
  /\ (last.op = "verify_email" /\ last.res \in {"200 verified", "200 already verified"})
       => last.tok.type = "verify_email"

\* C4 (as stated): a login naming a registered user by username or by email,
\* with that user's password, is answered 403 while the user is unverified
\* and, once verified, 200 with a token bound to the user's username, which
\* the gate resolves to that user.
C4_LoginByUsernameOrEmail ==
  \A i \in UserIds :
    (/\ last.op = "login"
     /\ last.arg[1] \in {users[i].username, users[i].email}
     /\ verify_password(last.arg[2], users[i].hashed_password))
    => IF users[i].is_verified
         THEN /\ last.res = "200"
              /\ last.uid = i
              /\ last.tok.sub = users[i].username
              /\ users[i].is_active => get_current_active_user(last.tok).uid = i
         ELSE last.res = "403"

\* the identifiers under which login resolves user i: the username, and the
\* email unless it is somebody's username
LoginIdentifiers(i) ==
  {users[i].username} \cup
    (IF get_user_by_username(users[i].email) = NoUser THEN {users[i].email} ELSE {})

\* C4 (amended): for a registered user i and any identifier under which
\* login resolves i, a login with i's password is answered 403 while i is
\* unverified and 200 once verified, with a token bound to i's username that
\* the gate resolves to i while i is active; every held verification token,
\* while accepted, verifies the user registered with its email; every held
\* access token names a verified user and, before its expiry and while that
\* user is active, is resolved by the gate to exactly that user.
C4_RegisterVerifyLogin ==
  /\ \A i \in UserIds, p \in Passwords :
       verify_password(p, users[i].hashed_password) =>
         \A id \in LoginIdentifiers(i) :
           LET r == login_response(id, p)
           IN  IF users[i].is_verified
                 THEN /\ r.res = "200"
                      /\ r.uid = i
                      /\ r.tok.sub = users[i].username
                      /\ users[i].is_active =>
                           /\ get_current_active_user(r.tok).res = "principal"
                           /\ get_current_active_user(r.tok).uid = i
                 ELSE r.res = "403" /\ r.tok = NoToken
  /\ \A t \in tokens :
       (t.type = "verify_email" /\ ~Expired(t)) =>
         /\ verify_email_response(t).res \in {"200 verified", "200 already verified"}
         /\ users[verify_email_response(t).uid].email = t.sub
  /\ \A t \in tokens :
       t.type = NoType =>
         LET i == get_user_by_username(t.sub)
         IN  /\ i # NoUser
             /\ users[i].is_verified
             /\ (now < t.exp /\ users[i].is_active) =>
                  /\ get_current_active_user(t).res = "principal"
                  /\ get_current_active_user(t).uid = i

\* a verified user logged in with the email, some time after registering,
\* and the gate resolves the returned token to that user
C4_Witness ==
  /\ last.op = "login"
  /\ last.res = "200"
  /\ last.arg[1] = users[last.uid].email
  /\ last.arg[1] # users[last.uid].username
  /\ now > 0
  /\ get_current_active_user(last.tok).res = "principal"
  /\ get_current_active_user(last.tok).uid = last.uid

DuplicateAnswers == {"400 Username already registered", "400 Email already registered"}

\* C5: a register request whose username or email belongs to an existing
\* user is answered with a 400 duplicate error, and a request so answered
\* inserts no user, changes no user, issues no token and sends no email.
C5_DuplicateIdentityRejected ==
  [][last'.op = "register" =>
       /\ (\E i \in UserIds : \/ users[i].username = last'.arg[1]
                              \/ users[i].email = last'.arg[2])
            => last'.res \in DuplicateAnswers
       /\ last'.res \in DuplicateAnswers =>
            /\ users' = users
            /\ tokens' = tokens
            /\ outbox' = outbox
            /\ last'.tok = NoToken
            /\ last'.mail = "none"]_vars

\* a register request with a fresh username and a taken email was refused
C5_Witness ==
  /\ last.op = "register"
  /\ last.res = "400 Email already registered"
  /\ get_user_by_username(last.arg[1]) = NoUser
  /\ get_user_by_email(last.arg[2]) # NoUser

\* C6: a successful register appends exactly one row, unverified and active,
\* with the requested username and email, issues a verify_email token for
\* that email and calls the email collaborator exactly once for it; this is
\* so however the call ends, and no step removes a row or changes its
\* username or email.
C6_RegisterSuccess ==
  [][/\ (last'.op = "register" /\ last'.res = "200") =>
          /\ Len(users') = Len(users) + 1
          /\ SubSeq(users', 1, Len(users)) = users
          /\ last'.uid = Len(users')
          /\ users'[last'.uid].username = last'.arg[1]
          /\ users'[last'.uid].email = last'.arg[2]
          /\ ~users'[last'.uid].is_verified
          /\ users'[last'.uid].is_active
          /\ last'.tok.type = "verify_email"
          /\ last'.tok.sub = last'.arg[2]
          /\ SignatureValid(last'.tok)
          /\ outbox' = Append(outbox, [to |-> last'.arg[2], template |-> "verify"])
          /\ last'.mail \in DispatchOutcomes
     /\ last'.mail = "error" => last'.res = "200"
     /\ (last'.op = "register" /\ last'.res # "200") => (users' = users /\ outbox' = outbox)
     /\ \A i \in UserIds :
          /\ i <= Len(users')
          /\ users'[i].username = users[i].username
          /\ users'[i].email = users[i].email]_vars

\* a register succeeded although the call to Mailjet raised; the user is
\* stored, unverified
C6_Witness ==
  /\ last.op = "register"
  /\ last.res = "200"
  /\ last.mail = "error"
  /\ last.uid = Len(users)
  /\ ~users[last.uid].is_verified
  /\ users[last.uid].is_active
  /\ last.tok \notin tokens

\* C7: with /register requests served concurrently, no two users share a
\* username and no two users share an email, in every reachable state.
C7_UniqueIdentities ==
  \A i, j \in UserIds :
    i # j => /\ users[i].username # users[j].username
             /\ users[i].email # users[j].email

\* a request that passed both duplicate checks lost the race at the commit
C7_Witness ==
  /\ last.op = "register"
  /\ last.res = "500 IntegrityError"
  /\ \E i \in UserIds : \/ users[i].username = last.arg[1]
                        \/ users[i].email = last.arg[2]

\* C8 (as stated): is_verified changes only from false to true, and only in
\* a verify-email request whose token is validly signed, of kind verify_email,
\* unexpired (now < exp) and bound to that user's email.
C8_VerifiedOnlyByUnexpiredToken ==
  [][\A i \in UserIds :
       users'[i].is_verified # users[i].is_verified =>
         /\ ~users[i].is_verified
         /\ users'[i].is_verified
         /\ last'.op = "verify_email"
         /\ SignatureValid(last'.tok)
         /\ last'.tok.type = "verify_email"
         /\ last'.tok.sub = users[i].email
         /\ now < last'.tok.exp]_vars

VerifiedAnswers == {"200 verified", "200 already verified"}

\* C9: after a verify-email request has succeeded, the user is verified and
\* a second request with the same token is answered "already verified" for
\* the same user; a request so answered, and a second request straight after
\* the first, change nothing.
C9_ConfirmEmailIdempotent ==
  /\ []((last.op = "verify_email" /\ last.res \in VerifiedAnswers) =>
          /\ users[last.uid].is_verified
          /\ verify_email_response(last.tok).res = "200 already verified"
          /\ verify_email_response(last.tok).uid = last.uid)
  /\ [][/\ (last'.op = "verify_email" /\ last'.res = "200 already verified") =>
             (users' = users /\ tokens' = tokens /\ outbox' = outbox)
        /\ (/\ last.op = "verify_email"
            /\ last.res \in VerifiedAnswers
            /\ last'.op = "verify_email"
            /\ last'.tok = last.tok) =>
             /\ last'.res = "200 already verified"
             /\ users' = users]_vars

\* a second request with a held verification token was answered as a no-op
C9_Witness ==
  /\ last.op = "verify_email"
  /\ last.res = "200 already verified"
  /\ last.tok \in tokens
  /\ users[last.uid].is_verified

\* C10: a validly signed token presented when now >= exp is rejected:
\* /verify-email answers 400 and the gate answers 401.
C10_StrictExpiry ==
  (/\ last.op \in {"verify_email", "authenticate"}
   /\ SignatureValid(last.tok)
   /\ now >= last.tok.exp)
  => last.res = (IF last.op = "verify_email" THEN "400" ELSE "401")

\* C11: every token issued has exp = the instant of issue + the lifetime of its
\* kind: 60 minutes for the access token of login, 30 for the verify_email
\* token of register, 30 for the reset_password token of a reset request; and
\* a step hands out no token other than the one it answers with.
C11_IssueStep ==
  /\ (last'.op = "login" /\ last'.res = "200")
       => /\ last'.tok.type = NoType
          /\ last'.tok.exp = now + 60
  /\ (last'.op = "register" /\ last'.res = "200")
       => /\ last'.tok.type = "verify_email"
          /\ last'.tok.exp = now + 30
  /\ (last'.op = "request_reset" /\ last'.uid # NoUser)
       => /\ last'.tok.type = "reset_password"
          /\ last'.tok.exp = now + 30
  /\ tokens' \ tokens \subseteq {last'.tok}
  /\ \A t \in tokens' \ tokens : last'.op \in {"login", "register", "request_reset"}

C11_FixedLifetimes == [][C11_IssueStep]_vars

\* an access token, a verification token and a reset token were issued, the
\* access token after the clock had moved
C11_Witness ==
  /\ last.op = "login" /\ last.res = "200"
  /\ now > 0
  /\ last.tok.exp = now + ACCESS_TOKEN_EXPIRE_MINUTES
  /\ \E t \in tokens : t.type = "reset_password" /\ t.exp = PASSWORD_RESET_EXPIRE_MINUTES

\* the user an identifier names: by username, else by email
Named(identifier) ==
  IF get_user_by_username(identifier) # NoUser THEN get_user_by_username(identifier)
  ELSE get_user_by_email(identifier)

\* C12: login with an identifier that names no user and login with a wrong
\* password for an existing user get one and the same answer, 401 with no
\* token and no user in it, whatever is_verified and is_active of the user
\* named are.
C12_UniformInvalidCredentials ==
  /\ \A id \in Usernames \cup Emails \cup {"nonexistent"}, p \in Passwords \cup {"anything"} :
       (\/ Named(id) = NoUser
        \/ ~verify_password(p, users[Named(id)].hashed_password))
       => login_response(id, p) = Response("login", <<id, p>>, "401", NoUser, NoToken)
  /\ (last.op = "login" /\ last.res = "401") => last.tok = NoToken /\ last.uid = NoUser

\* a wrong password was answered 401 for a user who is unverified or inactive,
\* while some identifier names nobody
C12_Witness ==
  /\ last.op = "login" /\ last.res = "401"
  /\ Named(last.arg[1]) # NoUser
  /\ \/ ~users[Named(last.arg[1])].is_verified
     \/ ~users[Named(last.arg[1])].is_active
  /\ \E id \in Usernames \cup Emails : Named(id) = NoUser

\* C13: a request whose token names an inactive user is answered exactly as a
\* request with a missing, invalid or expired token or an unknown subject is:
\* with the 401 of get_current_user.
C13_InactiveLooksUnauthenticated ==
  (/\ last.op = "authenticate"
   /\ last.tok.type = NoType
   /\ last.uid # NoUser
   /\ ~users[last.uid].is_active)
  => last.res = get_current_active_user(NoToken).res

\* the checks a consumer expecting the given kind makes on a token
FailsACheck(token, kind) ==
  \/ ~SignatureValid(token)
  \/ Expired(token)
  \/ token.type # kind

\* C14: each consumer of tokens has one rejection: confirmEmail answers every
\* token with a bad signature, another kind, a passed expiry or no JWT shape
\* as it answers a malformed one, and so does the RequestAuthenticator.
C14_SingleOpaqueRejection ==
  /\ (last.op = "verify_email" /\ FailsACheck(last.tok, "verify_email"))
       => last.res = verify_email_response(MalformedToken).res
  /\ (last.op = "authenticate" /\ FailsACheck(last.tok, NoType))
       => last.res = get_current_active_user(MalformedToken).res

\* C15: a reset request always reports success and changes no user; for an
\* email nobody has it issues no token and makes no dispatch; for a registered
\* email it issues one reset_password token whose subject is the email and
\* makes exactly one dispatch of a reset email to it.
C15_RequestStep ==
  last'.op = "request_reset"
  => /\ last'.res = "ok"
     /\ users' = users
     /\ IF get_user_by_email(last'.arg[1]) = NoUser
          THEN /\ last'.tok = NoToken
               /\ tokens' = tokens
               /\ outbox' = outbox
          ELSE /\ last'.tok.type = "reset_password"
               /\ last'.tok.sub = last'.arg[1]
               /\ SignatureValid(last'.tok)
               /\ tokens' \ tokens \subseteq {last'.tok}
               /\ outbox' = Append(outbox, [to |-> last'.arg[1], template |-> "reset"])

C15_RequestPasswordReset == [][C15_RequestStep]_vars

\* a reset was requested for a registered email and its token reached the
\* mailbox, while another email is still unregistered
C15_Witness ==
  /\ last.op = "request_reset"
  /\ last.uid # NoUser
  /\ last.tok \in tokens
  /\ outbox[Len(outbox)] = [to |-> last.arg[1], template |-> "reset"]
  /\ \E e \in Emails : get_user_by_email(e) = NoUser

\* a reset token the spec calls valid and unexpired, naming an existing user
GoodResetToken(token) ==
  /\ SignatureValid(token)
  /\ token.type = "reset_password"
  /\ now < token.exp
  /\ get_user_by_email(token.sub) # NoUser

\* C16: confirming a reset with a valid, unexpired reset_password token of an
\* existing user's email replaces that user's credential hash and nothing else
\* (afterwards the new password is the one that logs in, the old one is not);
\* with any other token it fails InvalidOrExpiredToken and changes nothing.
C16_ConfirmStep ==
  last'.op = "confirm_reset"
  => IF GoodResetToken(last'.tok)
       THEN LET u == get_user_by_email(last'.tok.sub)
            IN  /\ last'.res = "ok"
                /\ \A p \in Passwords :
                     verify_password(p, users'[u].hashed_password) <=> p = last'.arg[1]
                /\ users' = [users EXCEPT ![u].hashed_password = users'[u].hashed_password]
       ELSE /\ last'.res = "InvalidOrExpiredToken"
            /\ users' = users

C16_ConfirmPasswordReset == [][C16_ConfirmStep]_vars

\* C17: the dispatch of the verification email does not hold back the
\* response of register: no request whose user row is committed is ever left
\* waiting, unanswered, inside the call to the email collaborator.
C17_DispatchDoesNotBlock ==
  \A r \in Requests : reg[r].pc # "sending"

\* C18: there is no revocation. An access token login has issued keeps being
\* accepted as its user at every instant before its exp, provided the user
\* still exists, is active and is verified at that instant, whatever has
\* happened in between: further logins, email confirmations, a password
\* change, registrations.
C18_NoRevocation ==
  /\ \A t \in tokens :
       LET u == get_user_by_username(t.sub)
       IN  (/\ t.type = NoType
            /\ now < t.exp
            /\ u # NoUser
            /\ users[u].is_active
            /\ users[u].is_verified)
           => get_current_active_user(t) = Response("authenticate", NoArg, "principal", u, t)
  /\ (/\ last.op = "authenticate"
      /\ last.tok \in tokens
      /\ last.tok.type = NoType
      /\ now < last.tok.exp)
     => /\ last.res = "principal"
        /\ users[last.uid].username = last.tok.sub

\* an access token issued at time 0 is accepted later on, after its user's
\* password was replaced and another user registered
C18_Witness ==
  /\ last.op = "authenticate"
  /\ last.res = "principal"
  /\ last.tok.type = NoType
  /\ last.tok.exp = ACCESS_TOKEN_EXPIRE_MINUTES
  /\ now > 0
  /\ users[last.uid].hashed_password = get_password_hash("pw2", "s1")
  /\ Len(users) = 2

\* C19: when an identifier is user A's username and also another user B's
\* email, login checks the password against A only: a password that is not
\* A's is answered 401 even if it is B's, and A's password logs A in, the
\* token's subject being A's username (403 while A is unverified).
C19_UsernameFirst ==
  \A A, B \in UserIds :
    (A # B /\ users[A].username = users[B].email)
    => \A p \in Passwords :
         LET r == login_response(users[A].username, p)
         IN  IF verify_password(p, users[A].hashed_password)
               THEN /\ r.uid = A
                    /\ r.res = IF users[A].is_verified THEN "200" ELSE "403"
                    /\ users[A].is_verified => r.tok.sub = users[A].username
               ELSE r = Response("login", <<users[A].username, p>>, "401", NoUser, NoToken)

\* B's password was tried with the shared identifier and refused, B being
\* verified
C19_Witness ==
  /\ last.op = "login"
  /\ last.res = "401"
  /\ \E A, B \in UserIds :
       /\ A # B
       /\ users[A].username = last.arg[1]
       /\ users[B].email = last.arg[1]
       /\ users[B].is_verified
       /\ verify_password(last.arg[2], users[B].hashed_password)
       /\ ~verify_password(last.arg[2], users[A].hashed_password)

\* C20: the gate checks the token, then looks the user up, then is_active,
\* then is_verified: a token that does not decode is answered 401 whatever
\* the user's flags; an active but unverified user gets 403, which is not the
\* 401; a user both inactive and unverified gets the inactive-user answer and
\* never the 403.
C20_GateOrder ==
  /\ \A t \in Presentable \cup {MalformedToken} :
       LET u == get_user_by_username(t.sub)
           r == get_current_active_user(t)
       IN  /\ ~jwt_decode_ok(t) => r.res = "401"
           /\ (jwt_decode_ok(t) /\ u = NoUser) => r.res = "401"
           /\ (jwt_decode_ok(t) /\ u # NoUser)
                => /\ r.uid = u
                   /\ ~users[u].is_active => r.res = "400 Inactive user"
                   /\ (users[u].is_active /\ ~users[u].is_verified) => r.res = "403"
  /\ (last.op = "authenticate" /\ last.uid # NoUser /\ ~users[last.uid].is_active)
       => last.res # "403"

\* a request for a user both inactive and unverified got the inactive-user
\* answer
C20_Witness ==
  /\ last.op = "authenticate"
  /\ last.res = "400 Inactive user"
  /\ ~users[last.uid].is_active
  /\ ~users[last.uid].is_verified

\* a validly issued token with its subject, kind or exp changed under the
\* original signature, or with its signature replaced
Tampered(t) ==
  ({[t EXCEPT !.sub = s] : s \in Usernames \cup Emails}
   \cup {[t EXCEPT !.type = k] : k \in {NoType, "verify_email", "reset_password"}}
   \cup {[t EXCEPT !.exp = e] : e \in {t.exp + 1, t.exp + 30, now, now + 1}}
   \cup {[t EXCEPT !.sig = HS256(AttackerKey, t.sub, t.type, t.exp)],
         [t EXCEPT !.sig = <<>>]})
  \ {t}

\* a verifier takes the token: the decoder of verify_email returns a subject,
\* or the decoding in get_current_user does not raise
Accepted(t) ==
  \/ decode_email_verification_token(t) # ""
  \/ decode_password_reset_token(t) # ""
  \/ jwt_decode_ok(t)

\* C21: a validly issued token whose subject, kind, exp or signature has been
\* changed is rejected by every verifier, and a token that verify_email or
\* the gate did not refuse is one the issue operations signed with SECRET_KEY
\* and handed out.
C21_TamperedIsRejected ==
  /\ \A t \in tokens : \A m \in Tampered(t) :
       /\ ~Accepted(m)
       /\ verify_email_response(m).res = "400"
       /\ get_current_active_user(m).res = "401"
  /\ \A m \in ForgedTokens \cup {MalformedToken, NoToken} :
       /\ ~Accepted(m)
       /\ verify_email_response(m).res = "400"
       /\ get_current_active_user(m).res = "401"
  /\ (/\ last.op \in {"verify_email", "authenticate"}
      /\ last.res \notin {"400", "401"})
     => /\ last.tok \in tokens
        /\ last.tok.sig = HS256(SECRET_KEY, last.tok.sub, last.tok.type, last.tok.exp)

\* a forged access token for a verified, active user was refused while that
\* user holds an expired token, whose exp pushed forward would be current
C21_Witness ==
  /\ last.op = "authenticate"
  /\ last.tok \in ForgedTokens
  /\ last.res = "401"
  /\ \E u \in UserIds :
       /\ users[u].username = last.tok.sub
       /\ users[u].is_verified
       /\ users[u].is_active
  /\ \E t \in tokens : Expired(t) /\ ~Expired([t EXCEPT !.exp = now + 1])

\* a verify_email token the spec calls valid and unexpired
GoodVerificationToken(token) ==
  /\ SignatureValid(token)
  /\ token.type = "verify_email"
  /\ now < token.exp

\* C22: confirmEmail fails InvalidOrExpiredToken for every token that is not
\* a valid, unexpired verify_email token, and UserNotFound for a valid one
\* whose subject is no user's email; a failed confirmEmail changes no user.
C22_FailedConfirmStep ==
  last'.op = "verify_email"
  => /\ ~GoodVerificationToken(last'.tok)
          => (last'.res = "400" /\ users' = users)
     /\ (GoodVerificationToken(last'.tok) /\ get_user_by_email(last'.tok.sub) = NoUser)
          => (last'.res = "404" /\ users' = users)
     /\ last'.res \in {"400", "404"} => users' = users

C22_FailedConfirmEmail == [][C22_FailedConfirmStep]_vars

\* C23: verifying a password against a malformed stored hash returns false
\* and raises nothing: login for a user whose stored hash is malformed is
\* answered with the 401 of invalid credentials.
C23_MalformedHashIsInvalidCredentials ==
  (/\ last.op = "login"
   /\ Resolved(last.arg[1]) # NoUser
   /\ users[Resolved(last.arg[1])].hashed_password = MalformedHash)
  => last.res = "401"

\* the outcomes of login and of the gate
ReadOnlyAnswers == {"200", "401", "403", "400 Inactive user", "principal"}

\* C24: login and request authentication write nothing to the user table:
\* whatever the input and the outcome, the users and each user's username,
\* email, hash, is_active and is_verified are the same after as before.
C24_ReadOnlyStep ==
  last'.op \in {"login", "authenticate"}
  => /\ users' = users
     /\ last'.res \in ReadOnlyAnswers

C24_LoginAndGateReadOnly == [][C24_ReadOnlyStep]_vars

\* a login was refused for want of verification with two users stored, one
\* of them deactivated
C24_Witness ==
  /\ last.op = "login"
  /\ last.res = "403"
  /\ Len(users) = 2
  /\ \E u \in UserIds : ~users[u].is_active

\* C25: login does not look at is_active: a verified user with the right
\* password is issued an access token for their username whether active or
\* not; deactivation is enforced at the gate alone, where a token naming a
\* deactivated user is refused for as long as the user stays inactive.
C25_LoginIgnoresIsActive ==
  /\ \A id \in Usernames \cup Emails, p \in Passwords :
       LET u == Resolved(id)
       IN  (/\ u # NoUser
            /\ verify_password(p, users[u].hashed_password)
            /\ users[u].is_verified)
           => /\ login_response(id, p).res = "200"
              /\ login_response(id, p).uid = u
              /\ login_response(id, p).tok = jwt_encode(users[u].username, NoType,
                                                         now + ACCESS_TOKEN_EXPIRE_MINUTES)
  /\ \A t \in tokens :
       (/\ t.type = NoType
        /\ get_user_by_username(t.sub) # NoUser
        /\ ~users[get_user_by_username(t.sub)].is_active)
       => get_current_active_user(t).res \in {"400 Inactive user", "401"}
  /\ (last.op = "login" /\ last.res = "200" /\ ~users[last.uid].is_active)
       => get_current_active_user(last.tok).res = "400 Inactive user"

\* a deactivated user logged in, got a token and holds it; the gate refuses it
C25_Witness ==
  /\ last.op = "login"
  /\ last.res = "200"
  /\ ~users[last.uid].is_active
  /\ last.tok \in tokens
  /\ get_current_active_user(last.tok).res = "400 Inactive user"

=============================================================================
